---- MODULE Spec2Model ----
(***************************************************************************)
(* Model of the in-memory key-value store with TTL expiration.             *)
(*                                                                         *)
(*   MinHeap     (src/src/minheap.ts)  indexed binary min-heap of          *)
(*               {key, val} entries with a key -> array-index map          *)
(*   InMemoryDB  (src/src/db.ts)       value map + MinHeap of expiration   *)
(*               timestamps + a 1000 ms garbage-collector interval         *)
(*                                                                         *)
(* Array indices are 0-based as in the source; the backing array is a      *)
(* TLA+ sequence, so slot i of the array is element i + 1 of the sequence. *)
(***************************************************************************)
EXTENDS Integers, Sequences, FiniteSets, TLC

VARIABLES
    store,                       \* InMemoryDB.store : Map<string, any>
    ttlStore,                    \* InMemoryDB.ttlStore : MinHeap = [heap, positions]
    garbageCollectorIntervalId,  \* the setInterval handle: [active, due]
    now,                         \* Date.now(), in milliseconds
    ret,                         \* what the last call returned (or threw)
    timers                       \* the setTimeout handles that are still pending

vars == <<store, ttlStore, garbageCollectorIntervalId, now, ret, timers>>

----------------------------------------------------------------------------
(* Bounds and inputs *)

Keys == {"a", "b", "c"}

\* the keys used when every method of the store is exercised
StoreKeys == {"a", "b"}

\* the `seconds` arguments handed to expire
Seconds == {1, 2}

\* the clock advances in whole steps of this many milliseconds
ClockSteps == {1000}

\* the clock stops advancing after MaxTicks garbage-collector intervals
MaxTicks == 2

\* incr stops at MaxNum, decr stops at -MaxNum
MaxNum == 1

\* timestamps handed directly to MinHeap.insert are 1..MaxVal
MaxVal == 4

\* the per-key-timer store calls setTimeout at most MaxTimers times
MaxTimers == 3

\* the interval of the garbage collector, in milliseconds
GcIntervalMs == 1000

\* expire multiplies its seconds by this
MsPerSecond == 1000

----------------------------------------------------------------------------
(* JavaScript values, as a tagged union *)

Num(n)    == [type |-> "number",    num |-> n, str |-> ""]
Str(s)    == [type |-> "string",    num |-> 0, str |-> s]
Bool(b)   == [type |-> "boolean",   num |-> IF b THEN 1 ELSE 0, str |-> ""]
Null      == [type |-> "null",      num |-> 0, str |-> ""]
Undefined == [type |-> "undefined", num |-> 0, str |-> ""]
Error(k)  == [type |-> "error",     num |-> 0, str |-> k]

\* a heap entry as a returned value
EntryVal(e) == [type |-> "entry", num |-> e.val, str |-> e.key]

\* the values handed to set
Values == {Num(0), Num(1), Str(""), Str("text"), Bool(FALSE)}

\* the one value handed to set when the expiration index is exercised
ExpiryValues == {Num(1)}

\* JavaScript truthiness, as used by the || operator
Falsy(v) ==
    \/ v.type \in {"null", "undefined"}
    \/ v.type = "number"  /\ v.num = 0
    \/ v.type = "string"  /\ v.str = ""
    \/ v.type = "boolean" /\ v.num = 0

\* a || b
Or(a, b) == IF Falsy(a) THEN b ELSE a

----------------------------------------------------------------------------
(* Map<K, V> *)

EmptyMap == [k \in {} |-> 0]
MapHas(m, k) == k \in DOMAIN m
MapSet(m, k, v) == [x \in (DOMAIN m) \cup {k} |-> IF x = k THEN v ELSE m[x]]
MapDelete(m, k) == [x \in (DOMAIN m) \ {k} |-> m[x]]
\* Map.get: undefined for a missing key
MapGet(m, k) == IF k \in DOMAIN m THEN m[k] ELSE Undefined

----------------------------------------------------------------------------
(* MinHeap *)

\* constructor
NewMinHeap == [heap |-> <<>>, positions |-> EmptyMap]

isEmpty(h) == Len(h.heap) = 0

peek(h) == IF isEmpty(h) THEN Null ELSE EntryVal(h.heap[1])

clear(h) == [heap |-> <<>>, positions |-> EmptyMap]

parentIndex(index) == (index - 1) \div 2
leftChildIndex(index) == 2 * index + 1
rightChildIndex(index) == 2 * index + 2

\* the swap without the second positions.set
swapStalePosition(h, i, j) ==
    LET hp == [h.heap EXCEPT ![i + 1] = h.heap[j + 1], ![j + 1] = h.heap[i + 1]]
    IN  [heap |-> hp,
         positions |-> MapSet(h.positions, hp[i + 1].key, i)]

\* [heap[i], heap[j]] = [heap[j], heap[i]] followed by the two positions.set
swap(h, i, j) ==
    LET hp == [h.heap EXCEPT ![i + 1] = h.heap[j + 1], ![j + 1] = h.heap[i + 1]]
    IN  [heap |-> hp,
         positions |-> MapSet(MapSet(h.positions, hp[i + 1].key, i), hp[j + 1].key, j)]

RECURSIVE bubbleUp(_, _)
bubbleUp(h, index) ==
    IF index > 0
    THEN LET parentIdx == parentIndex(index)
         IN  IF h.heap[parentIdx + 1].val <= h.heap[index + 1].val
             THEN h
             ELSE bubbleUp(swap(h, parentIdx, index), parentIdx)
    ELSE h

RECURSIVE bubbleDown(_, _)
bubbleDown(h, index) ==
    LET length   == Len(h.heap)
        leftIdx  == leftChildIndex(index)
        rightIdx == rightChildIndex(index)
        smallest ==
            IF leftIdx < length /\ h.heap[leftIdx + 1].val < h.heap[index + 1].val
            THEN leftIdx
            ELSE IF rightIdx < length /\ h.heap[rightIdx + 1].val < h.heap[index + 1].val
                 THEN rightIdx
                 ELSE index
    IN  IF smallest = index
        THEN h
        ELSE bubbleDown(swap(h, smallest, index), smallest)

update(h, currentVal, newVal) ==
    LET currentIdx   == h.positions[currentVal]
        currentValue == h.heap[currentIdx + 1].val
        h1 == [h EXCEPT !.heap[currentIdx + 1].val = newVal]
    IN  IF currentValue < newVal
        THEN bubbleDown(h1, currentIdx)
        ELSE bubbleUp(h1, currentIdx)

\* insert without the positions.has test: always pushes
insertAlwaysPush(h, key, val) ==
    LET pushed == Append(h.heap, [key |-> key, val |-> val])
        h1 == [heap |-> pushed,
               positions |-> MapSet(h.positions, key, Len(pushed) - 1)]
    IN  bubbleUp(h1, Len(pushed) - 1)

insert(h, key, val) ==
    IF MapHas(h.positions, key)
    THEN update(h, key, val)
    ELSE LET pushed == Append(h.heap, [key |-> key, val |-> val])
             h1 == [heap |-> pushed,
                    positions |-> MapSet(h.positions, key, Len(pushed) - 1)]
         IN  bubbleUp(h1, Len(pushed) - 1)

\* extractMin that pops the last entry without moving it to the root
extractMinDropsEnd(h) ==
    IF isEmpty(h)
    THEN [h |-> h, ret |-> Null]
    ELSE LET min    == h.heap[1]
             end    == h.heap[Len(h.heap)]
             popped == SubSeq(h.heap, 1, Len(h.heap) - 1)
         IN  [h |-> [heap |-> popped, positions |-> MapDelete(h.positions, end.key)],
              ret |-> EntryVal(min)]

\* returns the heap after the call and the returned entry (or null)
extractMin(h) ==
    IF isEmpty(h)
    THEN [h |-> h, ret |-> Null]
    ELSE LET min    == h.heap[1]
             end    == h.heap[Len(h.heap)]
             popped == SubSeq(h.heap, 1, Len(h.heap) - 1)
             h1 == IF Len(popped) > 0
                   THEN bubbleDown([heap |-> [popped EXCEPT ![1] = end],
                                    positions |-> MapSet(h.positions, end.key, 0)], 0)
                   ELSE [heap |-> popped, positions |-> h.positions]
         IN  [h |-> [h1 EXCEPT !.positions = MapDelete(h1.positions, min.key)],
              ret |-> EntryVal(min)]

----------------------------------------------------------------------------
(* Timers *)

\* setInterval(callback, 1000) armed at time t: first due one interval later
setInterval(t) == [active |-> TRUE, due |-> t + GcIntervalMs]

\* the pending setTimeout handles and the id of the next one; the heap-based
\* store never calls setTimeout
NoTimers == [live |-> {}, next |-> 0]

\* setTimeout(callback, ms) at time t, for the callback that deletes key
NewTimeout(tm, key, t, ms) == [id |-> tm.next, key |-> key, due |-> t + ms]
setTimeout(tm, key, t, ms) ==
    [live |-> tm.live \cup {NewTimeout(tm, key, t, ms)}, next |-> tm.next + 1]

\* clearTimeout(handle): a handle that has fired or was cleared is ignored
clearTimeout(tm, handle) == [tm EXCEPT !.live = @ \ {handle}]

----------------------------------------------------------------------------
(* The MinHeap driven on its own: any sequence of its public methods *)

Init ==
    /\ store = EmptyMap
    /\ ttlStore = NewMinHeap
    /\ garbageCollectorIntervalId = setInterval(0)
    /\ now = 0
    /\ ret = Undefined
    /\ timers = NoTimers

HeapFrame == UNCHANGED <<store, garbageCollectorIntervalId, now, timers>>

Insert(key, val) ==
    /\ ttlStore' = insert(ttlStore, key, val)
    /\ ret' = Undefined
    /\ HeapFrame

ExtractMin ==
    /\ ttlStore' = extractMin(ttlStore).h
    /\ ret' = extractMin(ttlStore).ret
    /\ HeapFrame

Peek ==
    /\ ret' = peek(ttlStore)
    /\ UNCHANGED ttlStore
    /\ HeapFrame

Clear ==
    /\ ttlStore' = clear(ttlStore)
    /\ ret' = Undefined
    /\ HeapFrame

HeapNext ==
    \/ \E key \in Keys, val \in 1..MaxVal : Insert(key, val)
    \/ ExtractMin
    \/ Peek
    \/ Clear

HeapSpec == Init /\ [][HeapNext]_vars

----------------------------------------------------------------------------
(* InMemoryDB: the methods as functions of the fields they read *)

set(s, key, value) == MapSet(s, key, value)

del(s, key) == MapDelete(s, key)

\* the while loop: returns the fields after the sweep
\* the sweep with one garbage-collector interval of look-ahead
RECURSIVE collectExpiredKeysEarly(_, _, _)
collectExpiredKeysEarly(s, h, t) ==
    IF peek(h) # Null /\ peek(h).num <= t + GcIntervalMs
    THEN LET expiringKey == extractMin(h)
         IN  collectExpiredKeysEarly(IF expiringKey.ret # Null
                                     THEN del(s, expiringKey.ret.str)
                                     ELSE s,
                                     expiringKey.h, t)
    ELSE [store |-> s, ttlStore |-> h]

RECURSIVE collectExpiredKeys(_, _, _)
collectExpiredKeys(s, h, t) ==
    IF peek(h) # Null /\ peek(h).num <= t
    THEN LET expiringKey == extractMin(h)
         IN  collectExpiredKeys(IF expiringKey.ret # Null
                                THEN del(s, expiringKey.ret.str)
                                ELSE s,
                                expiringKey.h, t)
    ELSE [store |-> s, ttlStore |-> h]

get(s, h, t, key) ==
    LET swept == collectExpiredKeys(s, h, t)
    IN  [store |-> swept.store, ttlStore |-> swept.ttlStore,
         ret |-> Or(MapGet(swept.store, key), Null)]

expire(h, t, key, seconds) ==
    LET expirationTime == t + seconds * MsPerSecond
    IN  insert(h, key, expirationTime)

\* incr without the typeof test: a non-number is overwritten by 1
incrNoTypeCheck(s, key) ==
    IF ~MapHas(s, key) \/ MapGet(s, key).type # "number"
    THEN [store |-> MapSet(s, key, Num(1)), ret |-> Num(1)]
    ELSE LET newValue == Num(MapGet(s, key).num + 1)
         IN  [store |-> MapSet(s, key, newValue), ret |-> newValue]

incr(s, key) ==
    IF ~MapHas(s, key)
    THEN [store |-> MapSet(s, key, Num(1)), ret |-> Num(1)]
    ELSE LET value == MapGet(s, key)
         IN  IF value.type # "number"
             THEN [store |-> s, ret |-> Error(key)]
             ELSE LET newValue == Num(value.num + 1)
                  IN  [store |-> MapSet(s, key, newValue), ret |-> newValue]

\* decr that creates an absent key with 0 instead of -1
decrFromZero(s, key) ==
    IF ~MapHas(s, key)
    THEN [store |-> MapSet(s, key, Num(0)), ret |-> Num(0)]
    ELSE LET value == MapGet(s, key)
         IN  IF value.type # "number"
             THEN [store |-> s, ret |-> Error(key)]
             ELSE LET newValue == Num(value.num - 1)
                  IN  [store |-> MapSet(s, key, newValue), ret |-> newValue]

decr(s, key) ==
    IF ~MapHas(s, key)
    THEN [store |-> MapSet(s, key, Num(-1)), ret |-> Num(-1)]
    ELSE LET value == MapGet(s, key)
         IN  IF value.type # "number"
             THEN [store |-> s, ret |-> Error(key)]
             ELSE LET newValue == Num(value.num - 1)
                  IN  [store |-> MapSet(s, key, newValue), ret |-> newValue]

exists(s, key) == MapHas(s, key)

\* clearInterval: the handle no longer fires
clearInterval(id) == [active |-> FALSE, due |-> 0]

\* flushAll without ttlStore.clear()
flushAllKeepsTtl(s, h, id) ==
    [store |-> EmptyMap, ttlStore |-> h, id |-> clearInterval(id)]

\* flushAll without clearInterval
flushAllKeepsTimer(s, h, id) ==
    [store |-> EmptyMap, ttlStore |-> clear(h), id |-> id]

flushAll(s, h, id) ==
    [store |-> EmptyMap, ttlStore |-> clear(h), id |-> clearInterval(id)]

----------------------------------------------------------------------------
(* InMemoryDB: one action per public call, timer callback and clock step *)

Set(key, value) ==
    /\ store' = set(store, key, value)
    /\ ret' = Undefined
    /\ UNCHANGED <<ttlStore, garbageCollectorIntervalId, now, timers>>

Get(key) ==
    /\ store' = get(store, ttlStore, now, key).store
    /\ ttlStore' = get(store, ttlStore, now, key).ttlStore
    /\ ret' = get(store, ttlStore, now, key).ret
    /\ UNCHANGED <<garbageCollectorIntervalId, now, timers>>

Del(key) ==
    /\ store' = del(store, key)
    /\ ret' = Undefined
    /\ UNCHANGED <<ttlStore, garbageCollectorIntervalId, now, timers>>

Expire(key, seconds) ==
    /\ ttlStore' = expire(ttlStore, now, key, seconds)
    /\ ret' = Undefined
    /\ UNCHANGED <<store, garbageCollectorIntervalId, now, timers>>

\* the counter is capped at MaxNum
Incr(key) ==
    /\ MapHas(store, key) /\ store[key].type = "number" => store[key].num < MaxNum
    /\ store' = incr(store, key).store
    /\ ret' = incr(store, key).ret
    /\ UNCHANGED <<ttlStore, garbageCollectorIntervalId, now, timers>>

\* the counter is capped at -MaxNum
Decr(key) ==
    /\ MapHas(store, key) /\ store[key].type = "number" => store[key].num > -MaxNum
    /\ store' = decr(store, key).store
    /\ ret' = decr(store, key).ret
    /\ UNCHANGED <<ttlStore, garbageCollectorIntervalId, now, timers>>

Exists(key) ==
    /\ ret' = Bool(exists(store, key))
    /\ UNCHANGED <<store, ttlStore, garbageCollectorIntervalId, now, timers>>

FlushAll ==
    /\ store' = flushAll(store, ttlStore, garbageCollectorIntervalId).store
    /\ ttlStore' = flushAll(store, ttlStore, garbageCollectorIntervalId).ttlStore
    /\ garbageCollectorIntervalId' = flushAll(store, ttlStore, garbageCollectorIntervalId).id
    /\ ret' = Undefined
    /\ UNCHANGED <<now, timers>>

\* the setInterval callback: runs once the interval has elapsed, then re-arms
GarbageCollect ==
    /\ garbageCollectorIntervalId.active
    /\ now >= garbageCollectorIntervalId.due
    /\ store' = collectExpiredKeys(store, ttlStore, now).store
    /\ ttlStore' = collectExpiredKeys(store, ttlStore, now).ttlStore
    /\ garbageCollectorIntervalId' = setInterval(now)
    /\ ret' = Undefined
    /\ UNCHANGED <<now, timers>>

\* Date.now() moves forward
Tick(d) ==
    /\ now + d <= MaxTicks * GcIntervalMs
    /\ now' = now + d
    /\ UNCHANGED <<store, ttlStore, garbageCollectorIntervalId, ret, timers>>

Next ==
    \/ \E key \in StoreKeys, value \in Values : Set(key, value)
    \/ \E key \in StoreKeys : Get(key)
    \/ \E key \in StoreKeys : Del(key)
    \/ \E key \in StoreKeys, seconds \in Seconds : Expire(key, seconds)
    \/ \E key \in StoreKeys : Incr(key)
    \/ \E key \in StoreKeys : Decr(key)
    \/ \E key \in StoreKeys : Exists(key)
    \/ FlushAll
    \/ GarbageCollect
    \/ \E d \in ClockSteps : Tick(d)

Spec == Init /\ [][Next]_vars

\* the calls that read or write the expiration index, on three keys
ExpiryNext ==
    \/ \E key \in Keys, value \in ExpiryValues : Set(key, value)
    \/ \E key \in Keys : Get(key)
    \/ \E key \in Keys : Del(key)
    \/ \E key \in Keys, seconds \in Seconds : Expire(key, seconds)
    \/ FlushAll
    \/ GarbageCollect
    \/ \E d \in ClockSteps : Tick(d)

ExpirySpec == Init /\ [][ExpiryNext]_vars

----------------------------------------------------------------------------
(* Properties of MinHeap, checked under HeapSpec *)

\* the keys held in the backing array
HeapKeys(h) == {h.heap[i].key : i \in 1..Len(h.heap)}

\* the array slots that hold key k
SlotsOf(h, k) == {i \in 1..Len(h.heap) : h.heap[i].key = k}

\* C1: heap order invariant -- for every index i > 0 of the backing array,
\* heap[i].val >= heap[parent(i)].val with parent(i) = floor((i-1)/2).
C1_HeapOrder ==
    \A i \in 1..(Len(ttlStore.heap) - 1) :
        ttlStore.heap[i + 1].val >= ttlStore.heap[parentIndex(i) + 1].val

\* C2: peek() and extractMin() return an entry whose timestamp is the
\* smallest among all entries held, or null when the heap is empty.
C2_ReturnsMinimum ==
    [][(Peek \/ ExtractMin) =>
          IF isEmpty(ttlStore)
          THEN ret' = Null
          ELSE /\ ret'.type = "entry"
               /\ \A i \in 1..Len(ttlStore.heap) : ret'.num <= ttlStore.heap[i].val]_vars

\* C8: position-map consistency -- the domain of positions is exactly the set
\* of keys in the heap array, and heap[positions[k]].key = k for each of them.
C8_PositionsConsistent ==
    /\ DOMAIN ttlStore.positions = HeapKeys(ttlStore)
    /\ \A k \in DOMAIN ttlStore.positions :
          /\ ttlStore.positions[k] \in 0..(Len(ttlStore.heap) - 1)
          /\ ttlStore.heap[ttlStore.positions[k] + 1].key = k
    /\ Cardinality(DOMAIN ttlStore.positions) = Len(ttlStore.heap)

\* an extractMin has removed the root of a three-entry heap: its key is gone
\* from the array and from the map, and the two entries left are mapped to
\* the slots they now occupy
C8_Witness ==
    /\ ret.type = "entry"
    /\ ret.str \notin HeapKeys(ttlStore)
    /\ ret.str \notin DOMAIN ttlStore.positions
    /\ Len(ttlStore.heap) = 2
    /\ ttlStore.heap[1].val < ttlStore.heap[2].val
    /\ ttlStore.positions[ttlStore.heap[1].key] = 0
    /\ ttlStore.positions[ttlStore.heap[2].key] = 1

----------------------------------------------------------------------------
(* Properties of the expiration index inside InMemoryDB, under ExpirySpec *)

\* key k has an entry in the expiration index whose timestamp is <= t
HasDueEntry(h, k, t) == \E i \in SlotsOf(h, k) : h.heap[i].val <= t

\* C3: get(k) returns null whenever k has an entry in the expiration index
\* whose timestamp is <= the current time at the moment of the get.
C3_GetNeverReturnsExpired ==
    [][\A k \in Keys :
          (Get(k) /\ HasDueEntry(ttlStore, k, now)) => ret' = Null]_vars

\* C7: each key occurs at most once in the backing array, and expire(k, s)
\* leaves exactly one entry for k, with the timestamp computed from s, whether
\* or not k had an entry before.
C7_NoDuplicateEntries ==
    /\ [](\A k \in Keys : Cardinality(SlotsOf(ttlStore, k)) <= 1)
    /\ [][\A k \in Keys, seconds \in Seconds :
             Expire(k, seconds) =>
                /\ Cardinality(SlotsOf(ttlStore', k)) = 1
                /\ \A i \in SlotsOf(ttlStore', k) :
                      ttlStore'.heap[i].val = now + seconds * MsPerSecond]_vars

\* all three keys have an entry and the root is later than its right child:
\* only an expire on a key that already had an entry (the update path,
\* bubbling down from the root) leaves the array like this, and it still
\* holds one entry per key
C7_Witness ==
    /\ Len(ttlStore.heap) = 3
    /\ ttlStore.heap[1].val > ttlStore.heap[3].val
    /\ \A k \in Keys : Cardinality(SlotsOf(ttlStore, k)) = 1

----------------------------------------------------------------------------
(* Properties of InMemoryDB, under Spec *)

\* C4: set(k, v) leaves k without an entry in the expiration index.
C4_SetClearsTtl ==
    [][\A k \in Keys, v \in Values :
          Set(k, v) => ~MapHas(ttlStore'.positions, k) /\ SlotsOf(ttlStore', k) = {}]_vars

\* C5: del(k) removes k from the value mapping and removes k's entry from the
\* expiration index; del of an absent key changes nothing.
C5_DelRemovesTtl ==
    [][\A k \in Keys :
          Del(k) =>
             /\ ~MapHas(store', k)
             /\ SlotsOf(ttlStore', k) = {}
             /\ ~MapHas(store, k) => store' = store]_vars

\* C6: expire(k, s) on a key k absent from the value mapping leaves the value
\* mapping and the expiration index unchanged.
C6_ExpireAbsentIsNoOp ==
    [][\A k \in Keys, seconds \in Seconds :
          (Expire(k, seconds) /\ ~MapHas(store, k)) =>
              UNCHANGED <<store, ttlStore>>]_vars

\* C9: set(k, v) on a key without a TTL, immediately followed by get(k),
\* returns v; and get(k) returns null exactly when exists(k) is false after it.
C9_RoundTrip ==
    [][/\ \A k \in Keys, v \in Values :
             (Set(k, v) /\ SlotsOf(ttlStore, k) = {}) =>
                 get(store', ttlStore', now', k).ret = v
       /\ \A k \in Keys :
             Get(k) => (ret' = Null <=> ~exists(store', k))]_vars

\* C10: immediately after flushAll() the value mapping and the expiration
\* index are both empty, and while the index holds no entry no sweep (from
\* get or from the timer) removes a key: nothing registered before the
\* flushAll is left to fire.
C10_FlushAllClearsEverything ==
    [][/\ FlushAll =>
             /\ store' = EmptyMap
             /\ \A k \in Keys : ~exists(store', k)
             /\ ttlStore'.heap = <<>>
             /\ DOMAIN ttlStore'.positions = {}
       /\ ((GarbageCollect \/ \E k \in Keys : Get(k)) /\ ttlStore.heap = <<>>) =>
             store' = store]_vars

\* flushAll has run (the timer is cleared) and left the index empty, a key was
\* set afterwards, the clock has passed the first sweep time and the key's
\* value is still there and was returned by get
C10_Witness ==
    /\ ~garbageCollectorIntervalId.active
    /\ ttlStore.heap = <<>>
    /\ now >= GcIntervalMs
    /\ \E k \in Keys : MapHas(store, k) /\ ret = store[k] /\ ret.type = "string"

C12_IncrDecrResults ==
    [][\A k \in Keys :
          /\ Incr(k) =>
                /\ \A j \in DOMAIN store \ {k} : MapHas(store', j) /\ store'[j] = store[j]
                /\ DOMAIN store' = DOMAIN store \cup {k}
                /\ ~MapHas(store, k) =>
                      /\ ret' = Num(1) /\ store'[k] = Num(1)
                      /\ decr(store', k).ret = Num(0)
                      /\ decr(store', k).store = [store' EXCEPT ![k] = Num(0)]
                /\ (MapHas(store, k) /\ store[k].type = "number") =>
                      /\ ret' = Num(store[k].num + 1) /\ store'[k] = ret'
                      /\ decr(store', k).ret = store[k]
                      /\ decr(store', k).store = store
          /\ Decr(k) =>
                /\ \A j \in DOMAIN store \ {k} : MapHas(store', j) /\ store'[j] = store[j]
                /\ DOMAIN store' = DOMAIN store \cup {k}
                /\ ~MapHas(store, k) =>
                      ret' = Num(-1) /\ store'[k] = Num(-1)
                /\ (MapHas(store, k) /\ store[k].type = "number") =>
                      ret' = Num(store[k].num - 1) /\ store'[k] = ret']_vars

\* incr or decr has stored 0 in a counter and returned it, next to a key
\* that a decr created with -1
C12_Witness ==
    /\ ret = Num(0)
    /\ \E k, j \in Keys :
          /\ k # j
          /\ MapHas(store, k) /\ store[k] = Num(0)
          /\ MapHas(store, j) /\ store[j] = Num(-1)

\* C13: the sweep timer is running when the store is constructed; flushAll
\* stops it, a stopped timer is never started again, and the timer callback
\* never runs while the timer is stopped.
C13_SweepTeardown ==
    /\ garbageCollectorIntervalId.active
    /\ [][/\ FlushAll => ~garbageCollectorIntervalId'.active
          /\ ~garbageCollectorIntervalId.active =>
                /\ ~garbageCollectorIntervalId'.active
                /\ ~GarbageCollect]_vars

\* after flushAll a key was set and given a TTL, the TTL is due and the
\* stopped timer has left both the entry and the key in place
C13_Witness ==
    /\ ~garbageCollectorIntervalId.active
    /\ \E k \in Keys : MapHas(store, k) /\ HasDueEntry(ttlStore, k, now)

----------------------------------------------------------------------------
(* Properties of the sweep *)

\* a step that runs collectExpiredKeys: the timer callback or a get
Sweep == GarbageCollect \/ \E k \in Keys : Get(k)

\* the entries of the expiration index, as (key, timestamp) pairs
Pairs(h) == {<<h.heap[i].key, h.heap[i].val>> : i \in 1..Len(h.heap)}

\* C14: when collectExpiredKeys returns, no entry with timestamp <= the now
\* read at its start remains anywhere in the expiration index.
C14_SweepLeavesNothingDue ==
    [][Sweep => \A i \in 1..Len(ttlStore'.heap) : ttlStore'.heap[i].val > now]_vars

\* C15: a sweep extracts an entry and deletes its key only when the entry's
\* timestamp is <= the current time: an entry still in the future stays in
\* the index and its key keeps its value, and a key without an entry keeps
\* its value.
C15_NoPrematureSweep ==
    [][Sweep =>
          /\ \A p \in Pairs(ttlStore) : p[2] > now => p \in Pairs(ttlStore')
          /\ \A p \in Pairs(ttlStore) \ Pairs(ttlStore') : p[2] <= now
          /\ Pairs(ttlStore') \subseteq Pairs(ttlStore)
          /\ \A k \in DOMAIN store :
                (\A p \in Pairs(ttlStore) : p[1] = k => p[2] > now) =>
                    MapHas(store', k) /\ store'[k] = store[k]
          /\ DOMAIN store' \subseteq DOMAIN store]_vars

\* the timer callback has just run at the current time: the index still
\* holds an entry in the future whose key has its value, and a key without
\* an entry has its value
C15_Witness ==
    /\ garbageCollectorIntervalId.active
    /\ garbageCollectorIntervalId.due = now + GcIntervalMs
    /\ now >= GcIntervalMs
    /\ \E k, j \in Keys :
          /\ k # j
          /\ MapHas(store, k) /\ \E p \in Pairs(ttlStore) : p[1] = k /\ p[2] > now
          /\ MapHas(store, j) /\ SlotsOf(ttlStore, j) = {}

\* C16: every key that has an entry in the expiration index with a timestamp
\* still in the future is present in the value mapping.
C16_NoOrphanedTtl ==
    \A p \in Pairs(ttlStore) : p[2] > now => MapHas(store, p[1])

----------------------------------------------------------------------------
(* Background expiration: no caller invokes get, the clock advances and the *)
(* timer callback runs whenever it stays due                                *)

LiveNext ==
    \/ \E key \in StoreKeys, value \in Values : Set(key, value)
    \/ \E key \in StoreKeys : Del(key)
    \/ \E key \in StoreKeys, seconds \in Seconds : Expire(key, seconds)
    \/ \E key \in StoreKeys : Incr(key)
    \/ \E key \in StoreKeys : Decr(key)
    \/ \E key \in StoreKeys : Exists(key)
    \/ FlushAll
    \/ GarbageCollect
    \/ \E d \in ClockSteps : Tick(d)

LiveSpec ==
    /\ Init
    /\ [][LiveNext]_vars
    /\ WF_vars(GarbageCollect)
    /\ WF_vars(\E d \in ClockSteps : Tick(d))

\* C17: for a key that is set and given a TTL at any point of the store's
\* life, once the timestamp has elapsed exists(k) eventually becomes false
\* without any get (or a later expire has moved the timestamp forward).
C17_BackgroundExpiration ==
    \A k \in StoreKeys :
        (exists(store, k) /\ HasDueEntry(ttlStore, k, now))
            ~> (~exists(store, k) \/ ~HasDueEntry(ttlStore, k, now))

----------------------------------------------------------------------------
(* MinHeap as a key -> timestamp map, under HeapSpec *)

\* C18: the (key, val) pairs of the heap array behave as a map M: every key
\* has at most one pair; insert(k, v) sets M[k] := v and changes no other
\* pair; extractMin removes exactly the pair it returns (and returns null,
\* changing nothing, on an empty heap); peek changes nothing; clear empties M.
C18_RefinesMap ==
    /\ [](Cardinality(Pairs(ttlStore)) = Len(ttlStore.heap)
          /\ Cardinality(HeapKeys(ttlStore)) = Len(ttlStore.heap))
    /\ [][/\ \A k \in Keys, v \in 1..MaxVal :
                Insert(k, v) =>
                    Pairs(ttlStore') =
                        {p \in Pairs(ttlStore) : p[1] # k} \cup {<<k, v>>}
          /\ ExtractMin =>
                IF isEmpty(ttlStore)
                THEN ret' = Null /\ Pairs(ttlStore') = {}
                ELSE /\ <<ret'.str, ret'.num>> \in Pairs(ttlStore)
                     /\ Pairs(ttlStore') = Pairs(ttlStore) \ {<<ret'.str, ret'.num>>}
          /\ Peek => Pairs(ttlStore') = Pairs(ttlStore)
          /\ Clear => Pairs(ttlStore') = {}]_vars

\* an extractMin has returned one of two entries with the same timestamp out
\* of a three-entry heap: the other one and a later entry are left
C18_Witness ==
    /\ ret.type = "entry"
    /\ ret.str \notin HeapKeys(ttlStore)
    /\ Len(ttlStore.heap) = 2
    /\ \E i, j \in 1..2 :
          /\ i # j
          /\ ttlStore.heap[i].val = ret.num
          /\ ttlStore.heap[j].val > ret.num

----------------------------------------------------------------------------
(* The per-key-timer InMemoryDB (src/unnamed/part_001): ttlStore is a       *)
(* Map<string, Timeout> and every TTL is one setTimeout.  A store here is   *)
(* the record db = [store, ttlStore, timers]; the methods carry a T so that *)
(* they do not clash with those of the heap-based class.  get and exists    *)
(* only read store and are left out.                                        *)

\* the fields of the per-key-timer store
Db == [store |-> store, ttlStore |-> ttlStore, timers |-> timers]

\* if (ttlStore.has(key)) { clearTimeout(ttlStore.get(key)); ttlStore.delete(key) }
clearTtl(db, key) ==
    IF MapHas(db.ttlStore, key)
    THEN [db EXCEPT !.timers = clearTimeout(db.timers, db.ttlStore[key]),
                    !.ttlStore = MapDelete(db.ttlStore, key)]
    ELSE db

setT(db, key, value) ==
    LET cleared == clearTtl(db, key)
    IN  [cleared EXCEPT !.store = MapSet(cleared.store, key, value)]

delT(db, key) ==
    clearTtl([db EXCEPT !.store = MapDelete(db.store, key)], key)

\* expire that does not clear the timer the key already has
expireTKeepsOld(db, t, key, seconds) ==
    IF ~MapHas(db.store, key)
    THEN db
    ELSE [db EXCEPT
            !.timers = setTimeout(db.timers, key, t, seconds * MsPerSecond),
            !.ttlStore = MapSet(db.ttlStore, key,
                                NewTimeout(db.timers, key, t, seconds * MsPerSecond))]

expireT(db, t, key, seconds) ==
    IF ~MapHas(db.store, key)
    THEN db
    ELSE LET cleared == IF MapHas(db.ttlStore, key)
                        THEN clearTimeout(db.timers, db.ttlStore[key])
                        ELSE db.timers
             ttlTimeout == NewTimeout(cleared, key, t, seconds * MsPerSecond)
         IN  [db EXCEPT
                !.timers = setTimeout(cleared, key, t, seconds * MsPerSecond),
                !.ttlStore = MapSet(db.ttlStore, key, ttlTimeout)]

\* ttlStore.forEach(clearTimeout): every recorded handle is cleared
flushAllT(db) ==
    [store |-> EmptyMap,
     ttlStore |-> EmptyMap,
     timers |-> [db.timers EXCEPT
                   !.live = @ \ {db.ttlStore[k] : k \in DOMAIN db.ttlStore}]]

\* the setTimeout callback of handle: it is no longer pending, and runs del(key)
timeoutCallback(db, handle) ==
    delT([db EXCEPT !.timers = clearTimeout(db.timers, handle)], handle.key)

TimerInit ==
    /\ store = EmptyMap
    /\ ttlStore = EmptyMap
    /\ timers = NoTimers
    /\ garbageCollectorIntervalId = [active |-> FALSE, due |-> 0]
    /\ now = 0
    /\ ret = Undefined

\* the step to the fields of db2
Becomes(db2) ==
    /\ store' = db2.store
    /\ ttlStore' = db2.ttlStore
    /\ timers' = db2.timers
    /\ UNCHANGED <<garbageCollectorIntervalId, now>>

SetT(key, value) == Becomes(setT(Db, key, value)) /\ ret' = Undefined

DelT(key) == Becomes(delT(Db, key)) /\ ret' = Undefined

\* the number of setTimeout calls is capped at MaxTimers
ExpireT(key, seconds) ==
    /\ timers.next < MaxTimers
    /\ Becomes(expireT(Db, now, key, seconds))
    /\ ret' = Undefined

IncrT(key) ==
    /\ MapHas(store, key) /\ store[key].type = "number" => store[key].num < MaxNum
    /\ Becomes([Db EXCEPT !.store = incr(store, key).store])
    /\ ret' = incr(store, key).ret

DecrT(key) ==
    /\ MapHas(store, key) /\ store[key].type = "number" => store[key].num > -MaxNum
    /\ Becomes([Db EXCEPT !.store = decr(store, key).store])
    /\ ret' = decr(store, key).ret

FlushAllT == Becomes(flushAllT(Db)) /\ ret' = Undefined

\* a pending timeout fires once its delay has elapsed
TimeoutFires(handle) ==
    /\ handle \in timers.live
    /\ now >= handle.due
    /\ Becomes(timeoutCallback(Db, handle))
    /\ ret' = Undefined

TimerNext ==
    \/ \E key \in StoreKeys, value \in ExpiryValues : SetT(key, value)
    \/ \E key \in StoreKeys : DelT(key)
    \/ \E key \in StoreKeys, seconds \in Seconds : ExpireT(key, seconds)
    \/ \E key \in StoreKeys : IncrT(key)
    \/ \E key \in StoreKeys : DecrT(key)
    \/ FlushAllT
    \/ \E handle \in timers.live : TimeoutFires(handle)
    \/ \E d \in ClockSteps : Tick(d)

TimerSpec == TimerInit /\ [][TimerNext]_vars

\* the pending timeouts whose callback deletes key k
LiveTimersOf(k) == {h \in timers.live : h.key = k}

\* C19: every key in ttlStore is present in store; each key has at most one
\* pending timer and it is the one recorded in ttlStore; so the timer that
\* fires is the one recorded for its key.
C19_OneLiveTimerPerKey ==
    /\ [](/\ DOMAIN ttlStore \subseteq DOMAIN store
          /\ \A k \in Keys :
                /\ Cardinality(LiveTimersOf(k)) <= 1
                /\ LiveTimersOf(k) =
                      IF MapHas(ttlStore, k) THEN {ttlStore[k]} ELSE {})
    /\ [][\A h \in timers.live :
             TimeoutFires(h) =>
                /\ MapHas(ttlStore, h.key) /\ ttlStore[h.key] = h
                /\ ~MapHas(store', h.key) /\ ~MapHas(ttlStore', h.key)
                /\ LiveTimersOf(h.key)' = {}]_vars

\* a key was given a second TTL, so that its first timer was cleared, while
\* the other key has a pending timer of its own that is due
C19_Witness ==
    \E k, j \in Keys :
        /\ k # j
        /\ MapHas(ttlStore, k) /\ ttlStore[k].id > 0
        /\ MapHas(ttlStore, j) /\ ttlStore[j].due <= now
        /\ timers.next = 3
        /\ Cardinality(timers.live) = 2

====
